---- MODULE Spec2Model ----
(***************************************************************************)
(* Model of react-chatgpt-apps (src/src/hooks.ts): the external-store      *)
(* bridge useOpenAiGlobal (subscribe / handleSetGlobal / getSnapshot) over *)
(* the host object window.openai, and the pass-through refreshTool.        *)
(***************************************************************************)
EXTENDS Naturals, Sequences, FiniteSets, TLC

(* ---------------------------- bounds ----------------------------------- *)

\* number of subscribe calls (closures created by useSyncExternalStore)
MaxSubs == 2
\* number of set-globals events the host dispatches
MaxAnnounce == 2
\* number of refreshTool calls
MaxRefresh == 1

(* ---------------------------- values ----------------------------------- *)

\* keys of OpenAiGlobals used by the model (a subset of the ten keys)
Keys == {"theme", "toolOutput"}

\* JavaScript undefined: what a missing property reads as
Undefined == "undefined"
\* JavaScript null: a slot explicitly emptied
Null == "null"
\* Theme, and an opaque tool output
ThemeVals == {"light", "dark"}
OutputVals == {"out"}
RealVals == ThemeVals \cup OutputVals
Vals == RealVals \cup {Null, Undefined}
\* what the slot of a key can hold: toolOutput is ToolOutput | null, and any
\* slot reads as undefined until the host has set it
SlotVals(k) ==
    IF k = "theme" THEN ThemeVals \cup {Undefined}
    ELSE OutputVals \cup {Null, Undefined}

\* window.openai before the host has injected it: no property can be read
Absent == [k \in {} |-> Undefined]
\* the outcome of an expression that throws a TypeError
TypeError == "TypeError"

SubIds == 1..MaxSubs
CallIds == 1..MaxRefresh

\* (name, args) pairs passed to refreshTool
Requests == {<<"search", "cats">>, <<"x", "empty">>}
\* what the host's callTool promise can fulfil with / reject with
HostResults == {"result"}
HostErrors == {"e1", "e2"}

\* the globals mappings an event can carry: partial maps from keys to values
Announcements ==
    UNION {{g \in [D -> Vals] : \A k \in D : g[k] \in SlotVals(k)} :
           D \in SUBSET Keys}

\* the globals of an event that carries no key; also event before any dispatch
NoGlobals == [k \in {} |-> Undefined]
NoKey == "none"

VARIABLES
    openai,      \* window.openai: Absent, or the bag [Keys -> Vals]
    hasCallTool, \* whether window.openai.callTool is a function
    listeners,   \* window's listener list for the set-globals event, in order
    subs,        \* per subscribe call: its state and the key of its closure
    calls,       \* per subscribe call: how many times its onChange was called
    announced,   \* number of events dispatched so far
    event,       \* event.detail.globals of the latest dispatched event
    ran,         \* subscriptions whose handleSetGlobal ran in that dispatch
    reads,       \* getSnapshot results read by the onChange calls of that dispatch
    snapshot,    \* key and result of the getSnapshot call the latest step made, if any
    refresh      \* per refreshTool call: its promise and the host's side

vars == <<openai, hasCallTool, listeners, subs, calls, announced, event,
          ran, reads, snapshot, refresh>>

(* ---------------------------- helpers ---------------------------------- *)

Range(s) == {s[i] : i \in 1..Len(s)}

\* obj[key] on a JavaScript object: undefined when the property is missing
Lookup(obj, key) == IF key \in DOMAIN obj THEN obj[key] ELSE Undefined

\* removeEventListener given a function that was never added: nothing is removed
RemoveListenerOtherFn(ls, s) == ls

\* a cleanup that empties the whole listener list
RemoveEveryListener(ls, s) == <<>>

\* a cleanup that pops the listener added last, whichever it is
RemoveLastListener(ls, s) ==
    IF ls = <<>> THEN ls ELSE SubSeq(ls, 1, Len(ls) - 1)

\* removeEventListener: drops the listener if it is in the list
RemoveListener(ls, s) == SelectSeq(ls, LAMBDA x : x # s)

NoRead == "noread"
NoReq == <<"none", "none">>
NoValue == "none"
\* no getSnapshot call was made by the latest step
NoSnapshot == [key |-> NoKey, result |-> NoRead]

(* ---------------------------- the host --------------------------------- *)

\* The host writes the announced entries into the bag before it dispatches
\* the event; keys the announcement does not carry stay as they were.
HostApply(bag, globals) ==
    [k \in Keys |-> IF k \in DOMAIN globals THEN globals[k] ELSE bag[k]]

(* ---------------------------- useOpenAiGlobal -------------------------- *)

\* a snapshot served from the bag as it was before the dispatch in progress
getSnapshotCached(o, key) == IF openai = Absent THEN TypeError ELSE openai[key]

\* () => window.openai[key], on the value o of window.openai:
\* reading a property of undefined throws a TypeError
getSnapshot(o, key) == IF o = Absent THEN TypeError ELSE o[key]

\* the callback useSyncExternalStore passes to subscribe: it is counted and
\* reads the snapshot at once
onChange(s, o, st) ==
    [calls |-> [st.calls EXCEPT ![s] = @ + 1],
     reads |-> [st.reads EXCEPT ![s] = getSnapshot(o, subs[s].key)]]

\* a filter that looks at the whole event instead of the entry of its key
SuppressedAnyKey(globals, key) ==
    \A k \in DOMAIN globals : globals[k] = Undefined

\* if (value === null) return;
SuppressedIfNull(globals, key) == Lookup(globals, key) = Null

\* if (value == null) return;  the loose comparison also drops null
SuppressedNullish(globals, key) == Lookup(globals, key) \in {Undefined, Null}

\* const value = event.detail.globals[key]; if (value === undefined) return;
Suppressed(globals, key) == Lookup(globals, key) = Undefined

\* a handler that notifies its subscriber once and coalesces what follows
handleSetGlobalOnce(s, globals, o, st) ==
    IF Suppressed(globals, subs[s].key) \/ st.calls[s] > 0
    THEN st ELSE onChange(s, o, st)

handleSetGlobal(s, globals, o, st) ==
    IF Suppressed(globals, subs[s].key) THEN st ELSE onChange(s, o, st)

\* dispatchEvent: the listeners run synchronously, in the order they were added
RECURSIVE DispatchEvent(_, _, _, _)
DispatchEvent(ls, globals, o, st) ==
    IF ls = <<>> THEN st
    ELSE DispatchEvent(Tail(ls), globals, o,
                       handleSetGlobal(Head(ls), globals, o, st))

\* subscription ids are handed out in order: the next subscribe call
NextSub == Cardinality({s \in SubIds : subs[s].state # "idle"}) + 1

\* window.onfoo = handleSetGlobal: a single handler slot, so a new listener
\* takes the place of the ones installed before
AddListenerReplace(ls, s) == <<s>>

\* window.addEventListener(SET_GLOBALS_EVENT_TYPE, handleSetGlobal, ...)
AddListener(ls, s) == Append(ls, s)

\* a subscribe that replays to the new subscriber the latest event it missed
SubscribeReplay(s, k) ==
    /\ s = NextSub
    /\ subs[s].state = "idle"
    /\ listeners' = AddListener(listeners, s)
    /\ subs' = [subs EXCEPT ![s] = [state |-> "subscribed", key |-> k]]
    /\ calls' = [calls EXCEPT ![s] = IF announced > 0 /\ Lookup(event, k) # Undefined
                                     THEN @ + 1 ELSE @]
    /\ UNCHANGED <<openai, hasCallTool, announced, event, ran, reads, refresh>>
    /\ snapshot' = NoSnapshot

Subscribe(s, k) ==
    /\ s = NextSub
    /\ subs[s].state = "idle"
    /\ listeners' = AddListener(listeners, s)
    /\ subs' = [subs EXCEPT ![s] = [state |-> "subscribed", key |-> k]]
    /\ UNCHANGED <<openai, hasCallTool, calls, announced, event, ran, reads,
                   refresh>>
    /\ snapshot' = NoSnapshot

\* the function subscribe returns; calling it again removes nothing
Unsubscribe(s) ==
    /\ subs[s].state \in {"subscribed", "unsubscribed"}
    /\ listeners' = RemoveListener(listeners, s)
    /\ subs' = [subs EXCEPT ![s].state = "unsubscribed"]
    /\ UNCHANGED <<openai, hasCallTool, calls, announced, event, ran, reads,
                   refresh>>
    /\ snapshot' = NoSnapshot

\* window.openai[key] ??= null: a read that fills an unset slot with null
GetSnapshotDefaulting(k) ==
    /\ snapshot' = [key |-> k, result |-> getSnapshot(openai, k)]
    /\ openai' = IF openai # Absent /\ openai[k] = Undefined
                 THEN [openai EXCEPT ![k] = Null] ELSE openai
    /\ UNCHANGED <<hasCallTool, listeners, subs, calls, announced, event, ran,
                   reads, refresh>>

\* a stand-alone snapshot read (useSyncExternalStore reads it on every render)
GetSnapshot(k) ==
    /\ snapshot' = [key |-> k, result |-> getSnapshot(openai, k)]
    /\ UNCHANGED <<openai, hasCallTool, listeners, subs, calls, announced,
                   event, ran, reads, refresh>>

(* ---------------------------- host actions ----------------------------- *)

\* the host injects window.openai, with or without a callTool method
HostInstall(bag, ct) ==
    /\ openai = Absent
    /\ openai' = bag
    /\ hasCallTool' = ct
    /\ UNCHANGED <<listeners, subs, calls, announced, event, ran, reads,
                   refresh>>
    /\ snapshot' = NoSnapshot

\* the host updates the bag and dispatches a set-globals event on window
HostAnnounce(globals) ==
    /\ openai # Absent
    /\ announced < MaxAnnounce
    /\ openai' = HostApply(openai, globals)
    /\ LET st == DispatchEvent(listeners, globals, openai',
                               [calls |-> calls,
                                reads |-> [s \in SubIds |-> NoRead]])
       IN  /\ calls' = st.calls
           /\ reads' = st.reads
    /\ ran' = Range(listeners)
    /\ event' = globals
    /\ announced' = announced + 1
    /\ UNCHANGED <<hasCallTool, listeners, subs, refresh>>
    /\ snapshot' = NoSnapshot

(* ---------------------------- refreshTool ------------------------------ *)

IdleCall ==
    [state |-> "idle", req |-> NoReq, received |-> <<>>,
     host |-> [kind |-> "none", payload |-> NoValue], value |-> NoValue]

NextCall == Cardinality({c \in CallIds : refresh[c].state # "idle"}) + 1

\* await window.openai.callTool(name, args): without the optional chain,
\* reading callTool of undefined throws
refreshToolCallNoOptionalChain(o, ct, req) ==
    IF o = Absent \/ ~ct
    THEN [IdleCall EXCEPT !.state = "rejected", !.req = req,
                          !.value = TypeError]
    ELSE [IdleCall EXCEPT !.state = "awaiting", !.req = req,
                          !.received = <<req>>,
                          !.host = [kind |-> "pending", payload |-> NoValue]]

\* window.openai?.callTool(name, args) without the await: the function
\* returns while the host's promise is still pending
refreshToolCallNoAwait(o, ct, req) ==
    IF o = Absent
    THEN [IdleCall EXCEPT !.state = "fulfilled", !.req = req,
                          !.value = Undefined]
    ELSE IF ~ct
    THEN [IdleCall EXCEPT !.state = "rejected", !.req = req,
                          !.value = TypeError]
    ELSE [IdleCall EXCEPT !.state = "fulfilled", !.req = req,
                          !.value = Undefined,
                          !.received = <<req>>,
                          !.host = [kind |-> "pending", payload |-> NoValue]]

\* await window.openai?.callTool(name, args), up to the await:
\*   window.openai nullish: the optional chain yields undefined, the await
\*     of undefined completes and the function returns;
\*   callTool not a function: calling it throws a TypeError, which rejects
\*     the promise of the async function;
\*   otherwise the host's callTool is invoked with (name, args).
refreshToolCall(o, ct, req) ==
    IF o = Absent
    THEN [IdleCall EXCEPT !.state = "fulfilled", !.req = req,
                          !.value = Undefined]
    ELSE IF ~ct
    THEN [IdleCall EXCEPT !.state = "rejected", !.req = req,
                          !.value = TypeError]
    ELSE [IdleCall EXCEPT !.state = "awaiting", !.req = req,
                          !.received = <<req>>,
                          !.host = [kind |-> "pending", payload |-> NoValue]]

\* a continuation wrapped in try/catch: a rejection is swallowed
refreshToolResumeSwallow(r) ==
    [r EXCEPT !.state = "fulfilled", !.value = Undefined]

\* the continuation after the await: the result is dropped (the function
\* returns nothing), a rejection is rethrown as it is
refreshToolResume(r) ==
    IF r.host.kind = "fulfilled"
    THEN [r EXCEPT !.state = "fulfilled", !.value = Undefined]
    ELSE [r EXCEPT !.state = "rejected", !.value = r.host.payload]

RefreshTool(c, req) ==
    /\ c = NextCall
    /\ refresh[c].state = "idle"
    /\ refresh' = [refresh EXCEPT ![c] = refreshToolCall(openai, hasCallTool, req)]
    /\ UNCHANGED <<openai, hasCallTool, listeners, subs, calls, announced,
                   event, ran, reads>>
    /\ snapshot' = NoSnapshot

\* the promise returned by the host's callTool settles
HostSettle(c, kind, payload) ==
    /\ refresh[c].state = "awaiting"
    /\ refresh[c].host.kind = "pending"
    /\ refresh' = [refresh EXCEPT ![c].host = [kind |-> kind, payload |-> payload]]
    /\ UNCHANGED <<openai, hasCallTool, listeners, subs, calls, announced,
                   event, ran, reads>>
    /\ snapshot' = NoSnapshot

\* the async function resumes once the awaited promise has settled
RefreshResume(c) ==
    /\ refresh[c].state = "awaiting"
    /\ refresh[c].host.kind \in {"fulfilled", "rejected"}
    /\ refresh' = [refresh EXCEPT ![c] = refreshToolResume(refresh[c])]
    /\ UNCHANGED <<openai, hasCallTool, listeners, subs, calls, announced,
                   event, ran, reads>>
    /\ snapshot' = NoSnapshot

(* ---------------------------- specification ---------------------------- *)

Init ==
    /\ openai = Absent
    /\ hasCallTool = FALSE
    /\ listeners = <<>>
    /\ subs = [s \in SubIds |-> [state |-> "idle", key |-> NoKey]]
    /\ calls = [s \in SubIds |-> 0]
    /\ announced = 0
    /\ event = NoGlobals
    /\ ran = {}
    /\ reads = [s \in SubIds |-> NoRead]
    /\ snapshot = NoSnapshot
    /\ refresh = [c \in CallIds |-> IdleCall]

\* the bags the host can install, and the events it can dispatch
Bags == {bag \in [Keys -> Vals] : \A k \in Keys : bag[k] \in SlotVals(k)}

\* the operations of useOpenAiGlobal, with a host that has callTool
StoreNext ==
    \/ \E s \in SubIds, k \in Keys : Subscribe(s, k)
    \/ \E s \in SubIds : Unsubscribe(s)
    \/ \E k \in Keys : GetSnapshot(k)
    \/ \E bag \in Bags : HostInstall(bag, TRUE)
    \/ \E globals \in Announcements : HostAnnounce(globals)

StoreSpec == Init /\ [][StoreNext]_vars

\* the tool round trip: the host's theme stays as installed, every
\* announcement carries toolOutput only and every subscriber is on toolOutput
ToolBags == {bag \in Bags : bag["theme"] = "light"}
ToolAnnouncements == [{"toolOutput"} -> SlotVals("toolOutput")]

\* refreshTool beside useToolOutput subscriptions, on hosts with and without
\* callTool
ToolNext ==
    \/ \E s \in SubIds : Subscribe(s, "toolOutput")
    \/ \E s \in SubIds : Unsubscribe(s)
    \/ \E bag \in ToolBags, ct \in BOOLEAN : HostInstall(bag, ct)
    \/ \E globals \in ToolAnnouncements : HostAnnounce(globals)
    \/ \E c \in CallIds, req \in Requests : RefreshTool(c, req)
    \/ \E c \in CallIds, r \in HostResults : HostSettle(c, "fulfilled", r)
    \/ \E c \in CallIds, e \in HostErrors : HostSettle(c, "rejected", e)
    \/ \E c \in CallIds : RefreshResume(c)

ToolSpec == Init /\ [][ToolNext]_vars

Next == StoreNext \/ ToolNext

Spec == Init /\ [][Next]_vars

(* ---------------------------- properties ------------------------------- *)

Subscribed == {s \in SubIds : subs[s].state = "subscribed"}
Opened == {s \in SubIds : subs[s].state # "idle"}
\* the subscriptions whose onChange the latest dispatch called
Notified == {s \in SubIds : reads[s] # NoRead}

\* C1: key isolation. After an event whose globals carry only k2, no
\* subscriber on another key k1 has been notified by that event.
KeyIsolation ==
    \A k1 \in Keys, k2 \in Keys :
        (k1 # k2 /\ announced > 0 /\ DOMAIN event = {k2})
            => \A s \in SubIds : subs[s].key = k1 => s \notin Notified

\* a toolOutput listener ran for an event carrying only a real theme, and
\* was not notified, while a theme listener was
KeyIsolationWitness ==
    \E s \in ran, s2 \in ran :
        /\ subs[s].key = "toolOutput"
        /\ subs[s2].key = "theme"
        /\ DOMAIN event = {"theme"}
        /\ event["theme"] \in RealVals
        /\ s \notin Notified
        /\ calls[s] = 0
        /\ s2 \in Notified

\* C2: no-value suppression. After an event whose entry for k is undefined,
\* no subscriber on k has been notified by it, and a getSnapshot(k) made
\* right after it returns undefined.
NoValueSuppression ==
    \A k \in Keys :
        (announced > 0 /\ k \in DOMAIN event /\ event[k] = Undefined)
            => /\ \A s \in SubIds : subs[s].key = k => s \notin Notified
               /\ snapshot.key = k => snapshot.result = Undefined

\* a theme listener ran for an event with theme: undefined, was not
\* notified, and the read that followed returned undefined
NoValueSuppressionWitness ==
    \E s \in ran :
        /\ subs[s].key = "theme"
        /\ "theme" \in DOMAIN event
        /\ event["theme"] = Undefined
        /\ s \notin Notified
        /\ snapshot = [key |-> "theme", result |-> Undefined]

\* C3: read-after-announce. Every onChange call of the latest dispatch read,
\* with getSnapshot, the value that event carries for the subscriber's key.
ReadAfterAnnounce ==
    \A s \in SubIds :
        s \in Notified => reads[s] = Lookup(event, subs[s].key)

\* a second event changed theme to dark and the notified subscriber read dark
ReadAfterAnnounceWitness ==
    \E s \in ran :
        /\ announced = 2
        /\ calls[s] = 2
        /\ subs[s].key = "theme"
        /\ event["theme"] = "dark"
        /\ reads[s] = "dark"

\* C4: unsubscribe stops delivery. No step calls the onChange of a
\* subscription whose unsubscribe function has been called.
UnsubscribeStopsDelivery ==
    [][\A s \in SubIds :
          subs[s].state = "unsubscribed" => calls'[s] = calls[s]]_vars

\* a subscriber was notified, unsubscribed, and then an event carried a real
\* value for its key without its listener running
UnsubscribeStopsDeliveryWitness ==
    \E s \in SubIds :
        /\ subs[s].state = "unsubscribed"
        /\ calls[s] = 1
        /\ announced = 2
        /\ s \notin ran
        /\ Lookup(event, subs[s].key) \in RealVals

\* C6: reads never raise. A getSnapshot made while window.openai is absent
\* returns undefined.
ReadsNeverRaise ==
    (snapshot.key # NoKey /\ openai = Absent) => snapshot.result = Undefined

\* C10: listener accounting. The installed listeners are exactly the
\* subscriptions opened and not yet unsubscribed, one listener each.
ListenerAccounting ==
    /\ Len(listeners) = Cardinality(Subscribed)
    /\ Range(listeners) = Subscribed
    /\ (Opened # {} /\ Subscribed = {}) => listeners = <<>>

\* two subscriptions were opened and one of them unsubscribed
ListenerAccountingWitness ==
    /\ Cardinality(Opened) = 2
    /\ Cardinality(Subscribed) = 1
    /\ Len(listeners) = 1

\* every opened subscription has been unsubscribed
AllUnsubscribedWitness ==
    /\ Cardinality(Opened) = 2
    /\ Subscribed = {}
    /\ listeners = <<>>

\* a step that is the call of refreshTool number c
Calling(c) == refresh[c].state = "idle" /\ refresh'[c].state # "idle"

\* C5: silent delegation on a missing host. A refreshTool call made while
\* window.openai is absent fulfils with undefined, invokes no callTool, and
\* leaves window.openai and the listener list as they were.
SilentOnMissingHost ==
    [][\A c \in CallIds :
          (Calling(c) /\ openai = Absent)
              => /\ refresh'[c].state = "fulfilled"
                 /\ refresh'[c].value = Undefined
                 /\ refresh'[c].received = <<>>
                 /\ openai' = openai
                 /\ listeners' = listeners]_vars

\* refreshTool was called and fulfilled with no host, listeners installed
SilentOnMissingHostWitness ==
    \E c \in CallIds :
        /\ openai = Absent
        /\ refresh[c].state = "fulfilled"
        /\ refresh[c].req = <<"x", "empty">>
        /\ refresh[c].received = <<>>
        /\ listeners # <<>>

\* C7: a missing method is a silent no-op. A refreshTool call made while
\* window.openai exists without callTool fulfils with undefined and invokes
\* nothing, as it does when window.openai is absent.
MissingMethodSilent ==
    [][\A c \in CallIds :
          (Calling(c) /\ openai # Absent /\ ~hasCallTool)
              => /\ refresh'[c].state = "fulfilled"
                 /\ refresh'[c].value = Undefined
                 /\ refresh'[c].received = <<>>]_vars

\* C8: delegation and completion order. callTool is invoked once, with the
\* name and args refreshTool was given; the promise of refreshTool is not
\* fulfilled before the host's promise is; it fulfils with undefined; and no
\* step of refreshTool notifies a subscriber or changes the bag.
DelegationInv ==
    \A c \in CallIds :
        /\ refresh[c].received \in {<<>>, <<refresh[c].req>>}
        /\ (refresh[c].state = "fulfilled" /\ refresh[c].received # <<>>)
               => refresh[c].host.kind = "fulfilled"
        /\ refresh[c].state = "fulfilled" => refresh[c].value = Undefined

DelegationStep ==
    /\ \A c \in CallIds :
          (Calling(c) /\ openai # Absent /\ hasCallTool)
              => refresh'[c].received = <<refresh'[c].req>>
    /\ refresh' # refresh
          => (openai' = openai /\ calls' = calls /\ reads' = reads)
    /\ calls' # calls => announced' = announced + 1

DelegationAndCompletionOrder == []DelegationInv /\ [][DelegationStep]_vars

\* the search round trip: callTool("search", cats) was invoked once and
\* fulfilled with a result, refreshTool fulfilled with undefined, and a later
\* event notified a toolOutput subscriber, who read the announced value
DelegationWitness ==
    \E c \in CallIds, s \in ran :
        /\ refresh[c].req = <<"search", "cats">>
        /\ refresh[c].received = <<<<"search", "cats">>>>
        /\ refresh[c].host = [kind |-> "fulfilled", payload |-> "result"]
        /\ refresh[c].state = "fulfilled"
        /\ refresh[c].value = Undefined
        /\ subs[s].key = "toolOutput"
        /\ event["toolOutput"] = "out"
        /\ reads[s] = "out"

\* C9: a delegated failure propagates unchanged. When the host's promise
\* has rejected and refreshTool has resumed, its promise is rejected with the
\* host's reason, and callTool was invoked once only.
FailurePropagates ==
    \A c \in CallIds :
        /\ Len(refresh[c].received) <= 1
        /\ (refresh[c].host.kind = "rejected" /\ refresh[c].state # "awaiting")
               => /\ refresh[c].state = "rejected"
                  /\ refresh[c].value = refresh[c].host.payload
                  /\ Len(refresh[c].received) = 1

\* the host rejected with e2 and refreshTool rejected with e2
FailurePropagatesWitness ==
    \E c \in CallIds :
        /\ refresh[c].host = [kind |-> "rejected", payload |-> "e2"]
        /\ refresh[c].state = "rejected"
        /\ refresh[c].value = "e2"
        /\ refresh[c].received = <<refresh[c].req>>

\* a step that dispatches an event
Dispatching == announced' = announced + 1
\* the globals carry an entry for k that is not undefined
Carries(globals, k) == Lookup(globals, k) # Undefined

\* C11: independent delivery. Every dispatch of an event that carries a
\* value for k calls, once, the onChange of every subscription on k that is
\* subscribed at that time, however many other subscriptions there are.
IndependentDelivery ==
    [][Dispatching =>
          \A s \in SubIds :
              (subs[s].state = "subscribed" /\ Carries(event', subs[s].key))
                  => calls'[s] = calls[s] + 1]_vars

\* two subscribers on the same key were both notified by the same event
IndependentDeliveryWitness ==
    \E s \in ran, s2 \in ran :
        /\ s # s2
        /\ subs[s].key = "theme"
        /\ subs[s2].key = "theme"
        /\ Lookup(event, "theme") \in ThemeVals
        /\ s \in Notified
        /\ s2 \in Notified

\* C12: no reordering, no coalescing. A step calls the onChange of a
\* subscription exactly when it dispatches an event carrying a value for its
\* key while it is subscribed; it calls it once, and the call reads the value
\* of that event.
NoReorderNoCoalesce ==
    [][\A s \in SubIds :
          IF /\ Dispatching
             /\ subs[s].state = "subscribed"
             /\ Carries(event', subs[s].key)
          THEN /\ calls'[s] = calls[s] + 1
               /\ reads'[s] = event'[subs[s].key]
          ELSE calls'[s] = calls[s]]_vars

\* two events carried toolOutput and the subscriber was notified twice, the
\* second time reading the second event's value
NoReorderNoCoalesceWitness ==
    \E s \in ran :
        /\ subs[s].key = "toolOutput"
        /\ announced = 2
        /\ calls[s] = 2
        /\ Lookup(event, "toolOutput") = "out"
        /\ reads[s] = "out"

\* a getSnapshot made after an event returns what the bag holds for its key,
\* which is the entry of the latest event when that event carries the key
ReadsCurrent ==
    (snapshot.key # NoKey /\ announced > 0)
        => /\ snapshot.result = openai[snapshot.key]
           /\ snapshot.key \in DOMAIN event
                  => snapshot.result = event[snapshot.key]

\* an event dispatched while a subscription is not listening calls nothing
\* of it, and no step other than a dispatch calls an onChange
NoReplay ==
    /\ Dispatching
          => \A s \in SubIds :
                 subs[s].state # "subscribed" => calls'[s] = calls[s]
    /\ ~Dispatching => calls' = calls

\* C13: missed announcements are not replayed but reads stay current.
MissedNotReplayed == []ReadsCurrent /\ [][NoReplay]_vars

\* a subscription opened after an event that carried its key: it was not
\* notified, and its read returns the value of that event
MissedNotReplayedWitness ==
    \E s \in Subscribed :
        /\ announced > 0
        /\ s \notin ran
        /\ calls[s] = 0
        /\ Lookup(event, subs[s].key) \in RealVals
        /\ snapshot.key = subs[s].key
        /\ snapshot.result = Lookup(event, subs[s].key)

\* C14: the bag is read-only for the library. A subscribe, an unsubscribe
\* and a getSnapshot leave window.openai as it was; a dispatch leaves in it
\* what the host wrote, whatever the listeners did; and it changes in no
\* other step than the host's install and the host's dispatch.
BagReadOnly ==
    [][/\ subs' # subs => openai' = openai
       /\ listeners' # listeners => openai' = openai
       /\ snapshot'.key # NoKey => openai' = openai
       /\ Dispatching => openai' = HostApply(openai, event')
       /\ openai' # openai => (Dispatching \/ openai = Absent)]_vars

\* a subscription was opened, notified by an event and closed, a snapshot
\* was read, and the bag holds what the event announced
BagReadOnlyWitness ==
    \E s \in ran :
        /\ subs[s].state = "unsubscribed"
        /\ s \in Notified
        /\ snapshot.key = subs[s].key
        /\ snapshot.result = reads[s]
        /\ openai = HostApply(openai, event)

\* C15: only an undefined entry is suppressed. A dispatch whose entry for
\* the key of a subscribed subscription is null notifies it, so does one
\* whose entry equals what the bag held before, and a subscription is
\* notified exactly when the entry for its key is not undefined.
OnlyUndefinedSuppressed ==
    [][Dispatching =>
          \A s \in SubIds :
              subs[s].state = "subscribed" =>
                  LET k == subs[s].key
                      v == Lookup(event', k)
                  IN  /\ v = Null => calls'[s] = calls[s] + 1
                      /\ (v # Undefined /\ v = openai[k])
                             => calls'[s] = calls[s] + 1
                      /\ (calls'[s] # calls[s]) <=> (v # Undefined)]_vars

\* a toolOutput subscriber, notified once before, was notified again by an
\* event with toolOutput: null and read null
OnlyUndefinedSuppressedWitness ==
    \E s \in ran :
        /\ subs[s].key = "toolOutput"
        /\ announced = 2
        /\ calls[s] = 2
        /\ Lookup(event, "toolOutput") = Null
        /\ reads[s] = Null

\* C16: unsubscribe affects only its own subscription. No step removes the
\* listener of a subscription that stays subscribed or changes another
\* subscription than the one unsubscribing; and once some subscription has
\* been unsubscribed, every dispatch carrying the key of a subscription still
\* subscribed notifies it.
UnsubscribeOnlyOwn ==
    [][/\ \A t \in SubIds :
              (t \in Range(listeners) /\ subs'[t].state = "subscribed")
                  => t \in Range(listeners')
       /\ \A s \in SubIds :
              (subs[s].state = "subscribed" /\ subs'[s].state = "unsubscribed")
                  => \A t \in SubIds \ {s} : subs'[t] = subs[t]
       /\ Dispatching =>
              \A t \in SubIds :
                  (/\ subs[t].state = "subscribed"
                   /\ \E s \in SubIds : subs[s].state = "unsubscribed"
                   /\ Carries(event', subs[t].key))
                      => (t \in Range(listeners) /\ calls'[t] = calls[t] + 1)]_vars

\* of two subscribers on one key, both notified once, the first unsubscribed;
\* the next event ran the listener of the second only, and notified it
UnsubscribeOnlyOwnWitness ==
    \E s \in SubIds, t \in ran :
        /\ s < t
        /\ subs[s].key = subs[t].key
        /\ subs[s].state = "unsubscribed"
        /\ subs[t].state = "subscribed"
        /\ s \notin ran
        /\ calls[s] = 1
        /\ calls[t] = 2
        /\ t \in Notified

====
